---- MODULE Spec2Model ----
(***************************************************************************)
(* Model of cronjobs/pr-reviewer.js: the "Pull Request Reviewer" cron job. *)
(* An instant is a record [s, ms]: s the seconds elapsed since             *)
(* EpochYear-01-01T00:00:00 standard time of the host's zone, and ms the   *)
(* milliseconds within the second. A moment is an instant together with    *)
(* the zone of the host, [s, ms, zone]: moment() reads the clock in local  *)
(* mode.                                                                   *)
(***************************************************************************)
EXTENDS Integers, Sequences, FiniteSets

VARIABLES clock, prReviewerEmail, jobs, runs, mails, closeCalls

vars == <<clock, prReviewerEmail, jobs, runs, mails, closeCalls>>

----------------------------------------------------------------------------
(* Module-level constants, pr-reviewer.js lines 38-44.                      *)

repos == <<"numenta/nupic", "numenta/nupic.core",
           "numenta/nupic-linux64", "numenta/nupic-darwin64">>

readyLabel == "status:ready"

inProgressLabel == "status:in progress"

helpWantedLabel == "status:help wanted"

----------------------------------------------------------------------------
(* Calendar arithmetic of moment.js, as far as subtract() needs it.         *)

SecondsPerDay == 24 * 60 * 60

EpochYear == 2014

LastYear == 2016

Years == EpochYear .. LastYear

IsLeapYear(y) == (y % 4 = 0 /\ y % 100 # 0) \/ y % 400 = 0

DaysInYear(y) == IF IsLeapYear(y) THEN 366 ELSE 365

\* month is 1..12
DaysInMonth(y, m) ==
  IF m = 2 THEN (IF IsLeapYear(y) THEN 29 ELSE 28)
  ELSE IF m \in {4, 6, 9, 11} THEN 30 ELSE 31

\* the number of leap years before year y
LeapYearsBefore(y) == ((y - 1) \div 4) - ((y - 1) \div 100) + ((y - 1) \div 400)

\* the days from EpochYear-01-01 to y-01-01
DaysBeforeYear(y) ==
  365 * (y - EpochYear) + LeapYearsBefore(y) - LeapYearsBefore(EpochYear)

\* the days from y-01-01 to the first of month m
DaysBeforeMonth(y, m) ==
  <<0, 31, 59, 90, 120, 151, 181, 212, 243, 273, 304, 334>>[m]
    + (IF m > 2 /\ IsLeapYear(y) THEN 1 ELSE 0)

\* day number (0 = EpochYear-01-01) of the calendar date y-m-d
DateToDay(y, m, d) == DaysBeforeYear(y) + DaysBeforeMonth(y, m) + (d - 1)

LastDay == DaysBeforeYear(LastYear) + DaysInYear(LastYear) - 1

\* the year day number n falls in
YearOfDay(n) ==
  CHOOSE y \in Years : DaysBeforeYear(y) <= n /\ n < DaysBeforeYear(y) + DaysInYear(y)

\* the month the r-th day (from 0) of year y falls in
MonthOfYearDay(y, r) ==
  CHOOSE m \in 1 .. 12 :
    DaysBeforeMonth(y, m) <= r /\ r < DaysBeforeMonth(y, m) + DaysInMonth(y, m)

\* the calendar date of the r-th day (from 0) of year y, which is in month m
DateIn(y, m, r) == [year |-> y, month |-> m, date |-> r - DaysBeforeMonth(y, m) + 1]

\* the calendar date of the r-th day (from 0) of year y
DateOfYearDay(y, r) == DateIn(y, MonthOfYearDay(y, r), r)

\* the calendar date of day number n
DayToDate(n) == DateOfYearDay(YearOfDay(n), n - DaysBeforeYear(YearOfDay(n)))

Min(a, b) == IF a < b THEN a ELSE b

SecondsPerHour == 60 * 60

\* the zones of the host: one without daylight saving, and the zone the job
\* is scheduled in, with the rule of the United States
Zones == {"UTC", "America/Los_Angeles"}

ObservesDst(zone) == zone = "America/Los_Angeles"

\* the day of the week (0 = Sunday) of y-01-01
JanFirstWeekday(y) ==
  (1 + 5 * ((y - 1) % 4) + 4 * ((y - 1) % 100) + 6 * ((y - 1) % 400)) % 7

\* the day of the week (0 = Sunday) of day number n
Weekday(n) == (JanFirstWeekday(EpochYear) + n) % 7

\* the first Sunday on or after day number n
SundayOnOrAfter(n) == n + ((7 - Weekday(n)) % 7)

\* daylight saving of year y starts on the second Sunday of March at 02:00
\* standard time
DstStart(y) == SundayOnOrAfter(DateToDay(y, 3, 8)) * SecondsPerDay + 2 * SecondsPerHour

\* and ends on the first Sunday of November at 02:00 daylight time, which is
\* 01:00 standard time
DstEnd(y) == SundayOnOrAfter(DateToDay(y, 11, 1)) * SecondsPerDay + SecondsPerHour

\* the spans of daylight saving of the years
DstSpans == { [start |-> DstStart(y), end |-> DstEnd(y)] : y \in Years }

\* is daylight saving in force t seconds after the epoch
InDst(t) == \E span \in DstSpans : span.start <= t /\ t < span.end

\* the seconds local time is ahead of standard time at t
Offset(zone, t) == IF ObservesDst(zone) /\ InDst(t) THEN SecondsPerHour ELSE 0

\* the local time, in seconds since the epoch's midnight, at t
LocalTime(zone, t) == t + Offset(zone, t)

\* the seconds elapsed at local time w, as Date's setters resolve it: a
\* local time that occurs twice is the first one, a local time that is
\* skipped is read with the offset before the shift
FromLocalTime(zone, w) ==
  IF ObservesDst(zone) /\ InDst(w - SecondsPerHour) THEN w - SecondsPerHour ELSE w

\* moment().subtract(n, 'days'): the same local time of day n calendar days
\* earlier
SubtractDays(m, n) ==
  [m EXCEPT !.s = FromLocalTime(m.zone, LocalTime(m.zone, m.s) - n * SecondsPerDay)]

\* the instant at time of day s on day d of month m of year y, the day
\* clamped to the length of the month
ClampedInstant(y, m, d, s) == DateToDay(y, m, Min(d, DaysInMonth(y, m))) * SecondsPerDay + s

\* the instant one month before calendar date dt, at time of day s
MonthBeforeDate(dt, s) ==
  IF dt.month = 1
  THEN ClampedInstant(dt.year - 1, 12, dt.date, s)
  ELSE ClampedInstant(dt.year, dt.month - 1, dt.date, s)

\* the local time one month before local time w
MonthBeforeLocalTime(w) ==
  MonthBeforeDate(DayToDate(w \div SecondsPerDay), w % SecondsPerDay)

\* moment().subtract(1, 'month'): the month before, the day of the month
\* clamped to that month's length, the local time of day kept
SubtractMonth(m) ==
  [m EXCEPT !.s = FromLocalTime(m.zone, MonthBeforeLocalTime(LocalTime(m.zone, m.s)))]

\* IsBefore with the comparison made inclusive
IsSameOrBefore(a, b) == a.s < b.s \/ (a.s = b.s /\ a.ms <= b.ms)

\* moment(a).isBefore(b): a comparison of instants, to the millisecond
IsBefore(a, b) == a.s < b.s \/ (a.s = b.s /\ a.ms < b.ms)

----------------------------------------------------------------------------
(* Pull requests and their triage, processAllOpenPrs lines 111-156.         *)

\* a pull request as the GitHub client returns it; the label objects are
\* kept as the set of their names, updated_at as the instant new Date() reads
\* from it
PullRequest(title, labels, updated_at) ==
  [title |-> title, html_url |-> <<"url", title>>,
   labels |-> labels, updated_at |-> updated_at]

\* _.contains(labels, label)
Contains(labels, label) == label \in labels

sevenDaysAgo(now) == SubtractDays(now, 7)

almostMonthAgo(now) == SubtractDays(now, 25)

\* monthAgo taken as a fixed 30 days
monthAgoThirtyDays(now) == SubtractDays(now, 30)

monthAgo(now) == SubtractMonth(now)

\* Bucket with the close and warn tests in the opposite order
BucketWarnFirst(pr, reads) ==
  IF Contains(pr.labels, readyLabel)
  THEN (IF IsBefore(pr.updated_at, sevenDaysAgo(reads[1])) THEN "email" ELSE "none")
  ELSE IF Contains(pr.labels, inProgressLabel) \/ Contains(pr.labels, helpWantedLabel)
       THEN (IF IsBefore(pr.updated_at, almostMonthAgo(reads[2])) THEN "warn"
             ELSE IF IsBefore(pr.updated_at, monthAgo(reads[3])) THEN "close"
             ELSE "none")
       ELSE "none"

\* Bucket with the in-progress / help-wanted branch tested before the ready one
BucketInProgressFirst(pr, reads) ==
  IF Contains(pr.labels, inProgressLabel) \/ Contains(pr.labels, helpWantedLabel)
  THEN (IF IsBefore(pr.updated_at, monthAgo(reads[3])) THEN "close"
        ELSE IF IsBefore(pr.updated_at, almostMonthAgo(reads[2])) THEN "warn"
        ELSE "none")
  ELSE IF Contains(pr.labels, readyLabel)
       THEN (IF IsBefore(pr.updated_at, sevenDaysAgo(reads[1])) THEN "email" ELSE "none")
       ELSE "none"

\* Bucket with a pull request of no recognized label closed after a month
BucketDefaultClose(pr, reads) ==
  IF Contains(pr.labels, readyLabel)
  THEN (IF IsBefore(pr.updated_at, sevenDaysAgo(reads[1])) THEN "email" ELSE "none")
  ELSE IF IsBefore(pr.updated_at, monthAgo(reads[3])) THEN "close"
       ELSE IF (Contains(pr.labels, inProgressLabel) \/ Contains(pr.labels, helpWantedLabel))
               /\ IsBefore(pr.updated_at, almostMonthAgo(reads[2])) THEN "warn"
       ELSE "none"

\* the body of the _.each callback, lines 120-145, where reads[1], reads[2]
\* and reads[3] are what moment() returns on lines 123, 124 and 125: the
\* list the pull request is pushed on, "none" when it is pushed on no list
Bucket(pr, reads) ==
  IF Contains(pr.labels, readyLabel)
  THEN (IF IsBefore(pr.updated_at, sevenDaysAgo(reads[1])) THEN "email" ELSE "none")
  ELSE IF Contains(pr.labels, inProgressLabel) \/ Contains(pr.labels, helpWantedLabel)
       THEN (IF IsBefore(pr.updated_at, monthAgo(reads[3])) THEN "close"
             ELSE IF IsBefore(pr.updated_at, almostMonthAgo(reads[2])) THEN "warn"
             ELSE "none")
       ELSE "none"

\* the push of pull request pr on the list named b, if any
Push(acc, pr, b) ==
  [close |-> IF b = "close" THEN Append(acc.close, pr) ELSE acc.close,
   warn  |-> IF b = "warn"  THEN Append(acc.warn, pr)  ELSE acc.warn,
   email |-> IF b = "email" THEN Append(acc.email, pr) ELSE acc.email]

\* the list a ready pull request would be pushed on without its ready label
BucketBesidesReady(pr, reads) ==
  IF readyLabel \in pr.labels
  THEN Bucket([pr EXCEPT !.labels = @ \ {readyLabel}], reads)
  ELSE "none"

\* the readings of the clock left after the three of one iteration
Rest(reads) == SubSeq(reads, 4, Len(reads))

\* QueueActions with the label tests as independent ifs: a pull request
\* that is both ready and in progress is queued twice
RECURSIVE QueueActionsIndependentIfs(_, _, _)
QueueActionsIndependentIfs(prs, reads, acc) ==
  IF prs = <<>> THEN acc
  ELSE QueueActionsIndependentIfs(Tail(prs), Rest(reads),
         Push(Push(acc, Head(prs), Bucket(Head(prs), reads)),
              Head(prs), BucketBesidesReady(Head(prs), reads)))

\* the three lists after the _.each loop over prs, in push order; reads are
\* the successive readings of the clock, three in every iteration
RECURSIVE QueueActions(_, _, _)
QueueActions(prs, reads, acc) ==
  IF prs = <<>> THEN acc
  ELSE QueueActions(Tail(prs), Rest(reads),
                    Push(acc, Head(prs), Bucket(Head(prs), reads)))

EmptyQueues == [close |-> <<>>, warn |-> <<>>, email |-> <<>>]

----------------------------------------------------------------------------
(* The action handlers, lines 55-103.                                       *)

undefined == "undefined"

\* closePrExpired(prs): one logging call for the whole list
closePrExpired(r, prs) == <<[run |-> r, prs |-> prs]>>

\* BodyLines that lists the first pull request only
BodyLinesFirstOnly(prs) == [i \in 1 .. Min(1, Len(prs)) |-> <<prs[i].title, prs[i].html_url>>]

\* the body lines of the reminder, lines 85-87: one per pull request
BodyLines(prs) == [i \in 1 .. Len(prs) |-> <<prs[i].title, prs[i].html_url>>]

\* sendPrReviewReminder sending one mail for each pull request
sendPrReviewReminderEach(r, prs, to) ==
  IF to = undefined THEN <<>>
  ELSE [i \in 1 .. Len(prs) |->
          [run |-> r, to |-> to, subject |-> 1,
           body |-> BodyLines(<<prs[i]>>), state |-> "sent"]]

\* sendPrReviewReminder(prs): the sendMail calls it makes (none when the
\* module-level recipient is falsy, lines 77-80)
sendPrReviewReminder(r, prs, to) ==
  IF to = undefined THEN <<>>
  ELSE <<[run |-> r, to |-> to, subject |-> Len(prs),
          body |-> BodyLines(prs), state |-> "sent"]>>

\* ExecuteActions that also reminds of the pull requests to close
ExecuteActionsMailsClosed(r, q, to) ==
  [close |-> q.close, warn |-> q.warn, email |-> q.email,
   closed |-> IF Len(q.close) # 0 THEN closePrExpired(r, q.close) ELSE <<>>,
   mailed |-> IF Len(q.email) # 0
              THEN sendPrReviewReminder(r, q.email \o q.close, to) ELSE <<>>]

\* the handler calls of lines 148-155 for the queued lists q
ExecuteActions(r, q, to) ==
  [close |-> q.close, warn |-> q.warn, email |-> q.email,
   closed |-> IF Len(q.close) # 0 THEN closePrExpired(r, q.close) ELSE <<>>,
   mailed |-> IF Len(q.email) # 0 THEN sendPrReviewReminder(r, q.email, to) ELSE <<>>]

\* processAllOpenPrs(prs) with the readings reads of the clock and the module-level recipient
\* to: the three lists and the handler calls made
processAllOpenPrs(r, prs, reads, to) ==
  ExecuteActions(r, QueueActions(prs, reads, EmptyQueues), to)

----------------------------------------------------------------------------
(* The run coordinator, reviewPullRequests lines 166-205.                   *)

MaxRuns == 2

\* prs = prs.concat(prList) over prLists, lines 191-193
RECURSIVE ConcatAll(_)
ConcatAll(prLists) ==
  IF prLists = <<>> THEN <<>> ELSE Head(prLists) \o ConcatAll(Tail(prLists))

\* PrFetchers with a fetcher for every monitored repository
PrFetchersAll(repoClients) == repos

\* the fetchers pushed by the _.each over repos, lines 175-184: the
\* repositories that have a client, in the order of repos
PrFetchers(repoClients) == SelectSeq(repos, LAMBDA repo : repo \in repoClients)

\* the run and the handler calls after processAllOpenPrs(prs) returned p
RunProcessed(run, prs, reads, p) ==
  [run |-> [run EXCEPT !.called = TRUE, !.outcome = "processed",
                       !.prs = prs, !.reads = reads, !.close = p.close,
                       !.warn = p.warn, !.email = p.email],
   closed |-> p.closed, mailed |-> p.mailed]

\* the email list of the run before run number r
EarlierEmail(r) ==
  IF r > 1 /\ r - 1 <= Len(runs) THEN runs[r - 1].email ELSE <<>>

\* ProcessAggregated with the email list kept across runs instead of
\* starting empty
ProcessAggregatedSharedEmail(run, r, prs, reads, to) ==
  RunProcessed(run, prs, reads,
               [processAllOpenPrs(r, prs, reads, to) EXCEPT !.email = EarlierEmail(r) \o @])

\* the else branch of the callback, lines 191-194, with prs aggregated
ProcessAggregated(run, r, prs, reads, to) ==
  RunProcessed(run, prs, reads, processAllOpenPrs(r, prs, reads, to))

\* ParallelCallback that processes the lists it has whatever the error
ParallelCallbackIgnoresError(run, r, error, prLists, reads, to) ==
  ProcessAggregated(run, r, ConcatAll(prLists), reads, to)

\* the callback of async.parallel, lines 186-196, applied to run record run
\* (number r) when async calls it with (error, prLists): the run afterwards
\* and the handler calls made
ParallelCallback(run, r, error, prLists, reads, to) ==
  IF error
  THEN [run |-> [run EXCEPT !.called = TRUE, !.outcome = "failed"],
        closed |-> <<>>, mailed |-> <<>>]
  ELSE ProcessAggregated(run, r, ConcatAll(prLists), reads, to)

\* TaskSettles that keeps the results in the order the tasks called back
TaskSettlesInCompletionOrder(run, i, error, prList) ==
  IF error
  THEN [run EXCEPT !.status[i] = "error"]
  ELSE [run EXCEPT !.status[i] = "ok", !.prLists[run.completed + 1] = prList,
                   !.completed = @ + 1]

\* async.parallel's bookkeeping when task i of run calls back: the first
\* error calls the final callback at once and later calls are ignored; the
\* last success calls it with the results in task order
TaskSettles(run, i, error, prList) ==
  IF error
  THEN [run EXCEPT !.status[i] = "error"]
  ELSE [run EXCEPT !.status[i] = "ok", !.prLists[i] = prList,
                   !.completed = @ + 1]

\* FinalCallbackDue that never ends the join on an error
FinalCallbackDueOnSuccessOnly(run, i, error) ==
  /\ ~run.called
  /\ ~error
  /\ run.completed + 1 >= Len(run.fetchers)

\* FinalCallbackDue as a join that waits for every task, failed or not
FinalCallbackDueWhenAllSettled(run, i, error) ==
  /\ ~run.called
  /\ \A k \in DOMAIN run.status : k # i => run.status[k] # "pending"

\* FinalCallbackDue as a race: the first task to call back ends the join
FinalCallbackDueAtFirstResult(run, i, error) == ~run.called

\* does the call back of task i make async call the final callback
FinalCallbackDue(run, i, error) ==
  /\ ~run.called
  /\ \/ error
     \/ run.completed + 1 >= Len(run.fetchers)

NewRun(j, fetchers) ==
  [job |-> j, fetchers |-> fetchers,
   status |-> [i \in 1 .. Len(fetchers) |-> "pending"],
   prLists |-> [i \in 1 .. Len(fetchers) |-> <<>>],
   fetched |-> [i \in 1 .. Len(fetchers) |-> <<>>],
   completed |-> 0, called |-> FALSE, outcome |-> "waiting",
   prs |-> <<>>, reads |-> <<>>, close |-> <<>>, warn |-> <<>>, email |-> <<>>]

\* ReviewPullRequests that keeps the recipient of the first job
ReviewPullRequestsKeepsFirst(pr_review, repoClients) ==
  /\ prReviewerEmail' = IF jobs = <<>> THEN pr_review ELSE prReviewerEmail
  /\ jobs' = Append(jobs, [pr_review |-> pr_review, repoClients |-> repoClients])
  /\ UNCHANGED <<clock, runs, mails, closeCalls>>

\* reviewPullRequests(config, repoClients), lines 166-205
ReviewPullRequests(pr_review, repoClients) ==
  /\ prReviewerEmail' = pr_review
  /\ jobs' = Append(jobs, [pr_review |-> pr_review, repoClients |-> repoClients])
  /\ UNCHANGED <<clock, runs, mails, closeCalls>>

\* the state after the final callback left d for run number r
Called(r, d) ==
  /\ runs' = [i \in 1 .. (IF r > Len(runs) THEN r ELSE Len(runs)) |->
                IF i = r THEN d.run ELSE runs[i]]
  /\ mails' = mails \o d.mailed
  /\ closeCalls' = closeCalls \o d.closed

\* the cron function of job j, lines 169-197: every fetch is issued; with
\* no fetcher async.parallel calls back at once with no list
OnTick(j) ==
  /\ j \in 1 .. Len(jobs)
  /\ Len(runs) < MaxRuns
  /\ IF PrFetchers(jobs[j].repoClients) = <<>>
     THEN Called(Len(runs) + 1,
                 ParallelCallback(NewRun(j, <<>>), Len(runs) + 1, FALSE, <<>>,
                                  <<>>, prReviewerEmail))
     ELSE /\ runs' = Append(runs, NewRun(j, PrFetchers(jobs[j].repoClients)))
          /\ UNCHANGED <<mails, closeCalls>>
  /\ UNCHANGED <<clock, prReviewerEmail, jobs>>

\* the moment ms milliseconds after moment m
Advance(m, ms) ==
  [m EXCEPT !.s = m.s + ((m.ms + ms) \div 1000), !.ms = (m.ms + ms) % 1000]

\* the clock does not advance while the loop runs
Steady == [at |-> 1, by |-> 0]

\* n successive readings of a clock that shows now at first and is by
\* milliseconds later from its reading number at on
ClockReadings(now, drift, n) ==
  [k \in 1 .. n |-> Advance(now, IF k >= drift.at THEN drift.by ELSE 0)]

\* the state after task i of run r called back and left the run as settled;
\* the loop of processAllOpenPrs reads the clock three times for every pull
\* request
Settled(r, i, error, settled, drift) ==
  IF FinalCallbackDue(runs[r], i, error)
  THEN Called(r, ParallelCallback(settled, r, error, settled.prLists,
                                  ClockReadings(clock, drift,
                                                3 * Len(ConcatAll(settled.prLists))),
                                  prReviewerEmail))
  ELSE /\ runs' = [runs EXCEPT ![r] = settled]
       /\ UNCHANGED <<mails, closeCalls>>

\* the record of what fetch i handed to its callback
Observed(run, i, prList) == [run EXCEPT !.fetched[i] = prList]

\* fetch i of run r calls back with (error, prList), the clock drifting as
\* drift tells while the final callback runs
FetchCallback(r, i, error, prList, drift) ==
  /\ r \in 1 .. Len(runs)
  /\ i \in 1 .. Len(runs[r].fetchers)
  /\ runs[r].status[i] = "pending"
  /\ Settled(r, i, error, TaskSettles(Observed(runs[r], i, prList), i, error, prList),
             drift)
  /\ UNCHANGED <<clock, prReviewerEmail, jobs>>

\* SendMailCallback that sends the mail again when delivery failed
SendMailCallbackRetries(m, error) ==
  /\ m \in 1 .. Len(mails)
  /\ mails[m].state = "sent"
  /\ mails' = IF error
              THEN Append([mails EXCEPT ![m].state = "error logged"], mails[m])
              ELSE [mails EXCEPT ![m].state = "delivered"]
  /\ UNCHANGED <<clock, prReviewerEmail, jobs, runs, closeCalls>>

\* the callback handed to sendMail, lines 93-102: the outcome is logged
SendMailCallback(m, error) ==
  /\ m \in 1 .. Len(mails)
  /\ mails[m].state = "sent"
  /\ mails' = [mails EXCEPT ![m].state = IF error THEN "error logged" ELSE "delivered"]
  /\ UNCHANGED <<clock, prReviewerEmail, jobs, runs, closeCalls>>

----------------------------------------------------------------------------
(* The environment of the coordinator: configurations, clients, fetched     *)
(* lists and the clock, which stands still while a run is processed.        *)

Noon == 12 * 60 * 60

Days(n) == n * SecondsPerDay

Minutes(n) == n * 60

\* the moment s seconds and ms milliseconds after the epoch, in zone
Moment(zone, s, ms) == [s |-> s, ms |-> ms, zone |-> zone]

\* the instant secs seconds before moment now
Ago(now, secs) == [s |-> now.s - secs, ms |-> now.ms]

\* the instant ms milliseconds after moment m
InstantAfter(m, ms) == [s |-> Advance(m, ms).s, ms |-> Advance(m, ms).ms]

\* what the clock shows in the coordinator specification
RunClock ==
  Moment("America/Los_Angeles", DateToDay(EpochYear + 1, 6, 15) * SecondsPerDay + Noon, 0)

\* the milliseconds the clock may advance by while the loop runs
ClockAdvances == {1}

\* the ways the clock may drift during n readings: not at all, or once
Drifts(n) == {Steady} \cup { [at |-> a, by |-> b] : a \in 2 .. n, b \in ClockAdvances }

Recipients == {undefined, "committers"}

ClientSets == {{}, {repos[2]}, {repos[1], repos[4]}}

Unrecognized == "bug"

\* the lists a fetch may deliver at moment now
FetchedLists(now) ==
  { <<PullRequest("A", {readyLabel}, Ago(now, Days(10))),
      PullRequest("B", {inProgressLabel}, Ago(now, Days(35)))>>,
    <<PullRequest("C", {helpWantedLabel, Unrecognized}, Ago(now, Days(26))),
      PullRequest("D", {readyLabel}, Ago(now, Days(1)))>>,
    <<PullRequest("E", {readyLabel, inProgressLabel}, Ago(now, Days(40)))>> }

Init ==
  /\ clock = RunClock
  /\ prReviewerEmail = undefined
  /\ jobs = <<>>
  /\ runs = <<>>
  /\ mails = <<>>
  /\ closeCalls = <<>>

\* the job is constructed once, when the program starts
Construct ==
  /\ jobs = <<>>
  /\ \E to \in Recipients, cs \in ClientSets : ReviewPullRequests(to, cs)

Tick == \E j \in 1 .. Len(jobs) : OnTick(j)

FetchSucceeds ==
  \E r \in 1 .. Len(runs) : \E i \in 1 .. Len(runs[r].fetchers) :
    /\ runs[r].status[i] = "pending"
    /\ \E prList \in FetchedLists(clock) : FetchCallback(r, i, FALSE, prList, Steady)

FetchFails ==
  \E r \in 1 .. Len(runs) : \E i \in 1 .. Len(runs[r].fetchers) :
    FetchCallback(r, i, TRUE, <<>>, Steady)

MailDelivered == \E m \in 1 .. Len(mails) : SendMailCallback(m, FALSE)

MailFails == \E m \in 1 .. Len(mails) : SendMailCallback(m, TRUE)

Next ==
  \/ Construct
  \/ Tick
  \/ FetchSucceeds
  \/ FetchFails
  \/ MailDelivered
  \/ MailFails

Spec == Init /\ [][Next]_vars

----------------------------------------------------------------------------
(* The triage of one pull request: a job with one client, one run, and a    *)
(* fetched list of one pull request of any label set and age, in every      *)
(* zone, on the days around the shifts of daylight saving and the ends of   *)
(* months, the clock drifting or not; and lists of two pull requests        *)
(* updated at the same instant, at a threshold.                             *)

TriageYears == (EpochYear + 1) .. LastYear

\* the days after a shift on which a threshold lies across or on the shift
AfterShift == {0, 1, 7, 25}

ShiftDays ==
  UNION { { (DstStart(y) \div SecondsPerDay) + k : k \in AfterShift }
          \cup { (DstEnd(y) \div SecondsPerDay) + k : k \in AfterShift } : y \in TriageYears }

\* the days on which the month before is shorter, or in the year before
MonthDays ==
  UNION { { DateToDay(y, 1, 1), DateToDay(y, 1, 31), DateToDay(y, 3, 1),
            DateToDay(y, 3, 29), DateToDay(y, 3, 30), DateToDay(y, 3, 31),
            DateToDay(y, 5, 31) } : y \in TriageYears }

TriageDays(zone) == IF ObservesDst(zone) THEN ShiftDays \cup MonthDays ELSE MonthDays

\* times of day [s, ms]: in the hour that is skipped or repeated, at noon
\* and just before midnight
TriageTimes == { <<Minutes(90), 0>>, <<Noon, 0>>, <<SecondsPerDay - 1, 500>> }

TriageClocks ==
  UNION { { Moment(zone, d * SecondsPerDay + t[1], t[2]) :
              d \in TriageDays(zone), t \in TriageTimes } : zone \in Zones }

TriageLabelSets == SUBSET {readyLabel, inProgressLabel, helpWantedLabel, Unrecognized}

TriageAges ==
  { 0, Days(7) - Minutes(30), Days(7), Days(7) + 1, Days(7) + Minutes(20),
    Days(25) - Minutes(30), Days(25), Days(25) + Minutes(30),
    Days(28) - Minutes(30), Days(28), Days(29), Days(30), Days(31) + Minutes(90),
    Days(61) }

\* the instants at, just before and just after the thresholds of now
AtThresholds(now) ==
  { InstantAfter(t, d) :
      t \in {sevenDaysAgo(now), almostMonthAgo(now), monthAgo(now)}, d \in {-1, 0, 1} }

TriageUpdates(now) == { Ago(now, a) : a \in TriageAges } \cup AtThresholds(now)

TriageLists(now) ==
  { <<PullRequest("A", labels, updated_at)>> :
      labels \in TriageLabelSets, updated_at \in TriageUpdates(now) }
  \cup
  { <<PullRequest("A", labels, updated_at), PullRequest("B", labels, updated_at)>> :
      labels \in {{readyLabel}, {inProgressLabel}}, updated_at \in AtThresholds(now) }

InitTriage ==
  /\ clock \in TriageClocks
  /\ prReviewerEmail = "committers"
  /\ jobs = <<[pr_review |-> "committers", repoClients |-> {repos[1]}]>>
  /\ runs = <<>>
  /\ mails = <<>>
  /\ closeCalls = <<>>

TriageTick == runs = <<>> /\ OnTick(1)

TriageFetch ==
  /\ Len(runs) = 1
  /\ runs[1].status[1] = "pending"
  /\ \E prList \in TriageLists(clock) : \E drift \in Drifts(3 * Len(prList)) :
       FetchCallback(1, 1, FALSE, prList, drift)

NextTriage ==
  \/ TriageTick
  \/ TriageFetch
  \/ MailDelivered
  \/ MailFails

SpecTriage == InitTriage /\ [][NextTriage]_vars

----------------------------------------------------------------------------
(* Every fetch that was issued eventually calls back, with a list or with   *)
(* an error: getAllOpenPullRequests calls its callback once. The runs and   *)
(* so the fetches are finitely many, hence weak fairness of the call back   *)
(* step makes every issued fetch call back. What sendMail reports later     *)
(* has no part in the outcome of a run and is left out; the job has been    *)
(* constructed, with a recipient and any of the client sets.                *)

FetchesCallBack == WF_vars(FetchFails \/ FetchSucceeds)

\* the state after reviewPullRequests(config, repoClients) returned
InitLive ==
  /\ clock = RunClock
  /\ prReviewerEmail = "committers"
  /\ jobs \in { <<[pr_review |-> "committers", repoClients |-> cs]>> : cs \in ClientSets }
  /\ runs = <<>>
  /\ mails = <<>>
  /\ closeCalls = <<>>

NextLive ==
  \/ Tick
  \/ FetchSucceeds
  \/ FetchFails

SpecLive == InitLive /\ [][NextLive]_vars /\ FetchesCallBack

----------------------------------------------------------------------------
(* Several jobs: reviewPullRequests is called more than once, each call     *)
(* with its own configuration; every job has a client for the first         *)
(* repository and every fetch delivers one pull request waiting for review. *)

MaxJobs == 2

JobRecipients == {undefined, "committers", "reviewers"}

JobList(now) == <<PullRequest("A", {readyLabel}, Ago(now, Days(10)))>>

ConstructJob ==
  /\ Len(jobs) < MaxJobs
  /\ \E to \in JobRecipients : ReviewPullRequests(to, {repos[1]})

JobFetch ==
  \E r \in 1 .. Len(runs) : \E i \in 1 .. Len(runs[r].fetchers) :
    FetchCallback(r, i, FALSE, JobList(clock), Steady)

NextJobs ==
  \/ ConstructJob
  \/ Tick
  \/ JobFetch

SpecJobs == Init /\ [][NextJobs]_vars

----------------------------------------------------------------------------
(* Properties of the triage.                                                *)

Elems(s) == { s[i] : i \in DOMAIN s }

ProcessedRuns == { r \in DOMAIN runs : runs[r].outcome = "processed" }

\* the moment read for the k-th pull request of run r: j = 1 for the 7
\* days, 2 for the 25 days, 3 for the month
ReadAt(r, k, j) == runs[r].reads[3 * (k - 1) + j]

Positions(r) == DOMAIN runs[r].prs

Earlier(a, b) == a.s < b.s \/ (a.s = b.s /\ a.ms < b.ms)

NotLater(a, b) == a.s < b.s \/ (a.s = b.s /\ a.ms <= b.ms)

\* more than secs seconds have elapsed from the last update of pr to now
OlderThan(pr, now, secs) == Earlier(pr.updated_at, Ago(now, secs))

\* less than secs seconds have elapsed from the last update of pr to now
YoungerThan(pr, now, secs) == Earlier(Ago(now, secs), pr.updated_at)

\* what the shifts of daylight saving between now and secs seconds earlier
\* add to the elapsed time of "the same local time secs seconds earlier"
DstShift(now, secs) ==
  IF ~ObservesDst(now.zone) THEN 0
  ELSE IF InDst(now.s) /\ ~InDst(now.s - secs) THEN 0 - SecondsPerHour
  ELSE IF ~InDst(now.s) /\ InDst(now.s - secs - SecondsPerHour) THEN SecondsPerHour
  ELSE 0

\* more than n calendar days of the zone of now have elapsed since the last
\* update of pr
OlderThanDays(pr, now, n) == OlderThan(pr, now, Days(n) + DstShift(now, Days(n)))

\* pr was last updated before the same local time of the same day of the
\* month before now
OlderThanMonth(pr, now) == Earlier(pr.updated_at, SubtractMonth(now))

InClose(r, k) == runs[r].prs[k] \in Elems(runs[r].close)

InWarn(r, k) == runs[r].prs[k] \in Elems(runs[r].warn)

InEmail(r, k) == runs[r].prs[k] \in Elems(runs[r].email)

InNoBucket(r, k) == ~InClose(r, k) /\ ~InWarn(r, k) /\ ~InEmail(r, k)

IsReady(r, k) == readyLabel \in runs[r].prs[k].labels

InProgressNotReady(r, k) ==
  /\ ~IsReady(r, k)
  /\ \/ inProgressLabel \in runs[r].prs[k].labels
     \/ helpWantedLabel \in runs[r].prs[k].labels

\* C1 as stated: a pull request carrying the ready label is in the email
\* (notify) list exactly when more than 7 times 24 hours have elapsed since
\* its last update, at every current time.
C1_ReadyNotifyIffOlderThanSevenDays ==
  \A r \in ProcessedRuns : \A k \in Positions(r) :
    IsReady(r, k) =>
      /\ InEmail(r, k) <=> OlderThan(runs[r].prs[k], ReadAt(r, k, 1), Days(7))
      /\ ~OlderThan(runs[r].prs[k], ReadAt(r, k, 1), Days(7)) => InNoBucket(r, k)

\* C1 amended: a pull request carrying the ready label, whatever its other
\* labels, is in the email (notify) list exactly when it was last updated
\* strictly before the same local time 7 calendar days before the clock
\* reading, in the zone of the host: 7 times 24 hours earlier when no shift
\* of daylight saving lies between, an hour less when daylight saving began
\* between, an hour more when it ended between; otherwise it is in no list.
C1_ReadyNotifyIffOlderThanSevenCalendarDays ==
  \A r \in ProcessedRuns : \A k \in Positions(r) :
    IsReady(r, k) =>
      /\ InEmail(r, k) <=> OlderThanDays(runs[r].prs[k], ReadAt(r, k, 1), 7)
      /\ ~InEmail(r, k) => InNoBucket(r, k)
      /\ DstShift(ReadAt(r, k, 1), Days(7)) = 0 =>
           /\ runs[r].prs[k].updated_at = Ago(ReadAt(r, k, 1), Days(7)) => InNoBucket(r, k)
           /\ runs[r].prs[k].updated_at = Ago(ReadAt(r, k, 1), Days(7) + 1) => InEmail(r, k)

\* a ready pull request with other labels is mailed less than 7 times 24
\* hours after its last update, daylight saving having begun in between
C1_Witness ==
  \E r \in ProcessedRuns : \E k \in Positions(r) :
    /\ IsReady(r, k)
    /\ runs[r].prs[k].labels # {readyLabel}
    /\ InEmail(r, k)
    /\ runs[r].prs[k].updated_at = Ago(ReadAt(r, k, 1), Days(7) - Minutes(30))
    /\ DstShift(ReadAt(r, k, 1), Days(7)) = 0 - SecondsPerHour

\* C2 as stated: a pull request without the ready label that is in progress
\* or help wanted is in the close list when last updated before one month
\* before now, otherwise in the warn list when more than 25 times 24 hours
\* have elapsed since its last update, otherwise in no list.
C2_InProgressCloseThenWarn ==
  \A r \in ProcessedRuns : \A k \in Positions(r) :
    InProgressNotReady(r, k) =>
      /\ InClose(r, k) <=> OlderThanMonth(runs[r].prs[k], ReadAt(r, k, 3))
      /\ InWarn(r, k) <=> (/\ ~OlderThanMonth(runs[r].prs[k], ReadAt(r, k, 3))
                           /\ OlderThan(runs[r].prs[k], ReadAt(r, k, 2), Days(25)))
      /\ ~InEmail(r, k)

\* C2 amended: a pull request without the ready label that is in progress or
\* help wanted is in the close list when last updated strictly before the
\* same local time of the same day (or the last day) of the month before the
\* clock reading, otherwise in the warn list when last updated strictly
\* before the same local time 25 calendar days before the clock reading (25
\* times 24 hours, an hour less or more across a shift of daylight saving),
\* otherwise in no list; both labels behave alike, and more than 31 days and
\* an hour is always closed, less than 28 days less an hour never.
C2_InProgressCloseThenWarnByCalendar ==
  \A r \in ProcessedRuns : \A k \in Positions(r) :
    InProgressNotReady(r, k) =>
      /\ InClose(r, k) <=> OlderThanMonth(runs[r].prs[k], ReadAt(r, k, 3))
      /\ InWarn(r, k) <=> (/\ ~OlderThanMonth(runs[r].prs[k], ReadAt(r, k, 3))
                           /\ OlderThanDays(runs[r].prs[k], ReadAt(r, k, 2), 25))
      /\ ~InEmail(r, k)
      /\ OlderThan(runs[r].prs[k], ReadAt(r, k, 3), Days(31) + SecondsPerHour)
           => InClose(r, k)
      /\ InClose(r, k)
           => OlderThan(runs[r].prs[k], ReadAt(r, k, 3), Days(28) - SecondsPerHour)

\* an in-progress pull request is closed a millisecond past the month, and
\* the 25 calendar days before the reading are an hour short
C2_Witness ==
  \E r \in ProcessedRuns : \E k \in Positions(r) :
    /\ runs[r].prs[k].labels = {inProgressLabel}
    /\ InClose(r, k)
    /\ runs[r].prs[k].updated_at = InstantAfter(SubtractMonth(ReadAt(r, k, 3)), -1)
    /\ DstShift(ReadAt(r, k, 2), Days(25)) = 0 - SecondsPerHour

\* C3 as stated: an in-progress pull request last updated between 25 and 30
\* days before the run is in the warn list, at every date.
C3_WarnBetween25And30Days ==
  \A r \in ProcessedRuns : \A k \in Positions(r) :
    (/\ InProgressNotReady(r, k)
     /\ OlderThan(runs[r].prs[k], ReadAt(r, k, 2), Days(25))
     /\ YoungerThan(runs[r].prs[k], ReadAt(r, k, 3), Days(30)))
      => InWarn(r, k)

\* C3 amended: the month before the clock reading is between 28 days less an
\* hour and 31 days and an hour long; an in-progress pull request last
\* updated more than 25 days and an hour and at most 28 days less an hour
\* before the reading is in the warn list at every date and in every zone;
\* from there to 30 days it is in the warn list only while it was not
\* updated before the same local time a calendar month before the reading,
\* and in the close list otherwise.
C3_WarnUpToShortestMonth ==
  \A r \in ProcessedRuns : \A k \in Positions(r) :
    /\ NotLater(Ago(ReadAt(r, k, 3), Days(31) + SecondsPerHour),
                SubtractMonth(ReadAt(r, k, 3)))
    /\ NotLater(SubtractMonth(ReadAt(r, k, 3)),
                Ago(ReadAt(r, k, 3), Days(28) - SecondsPerHour))
    /\ (/\ InProgressNotReady(r, k)
        /\ OlderThan(runs[r].prs[k], ReadAt(r, k, 2), Days(25) + SecondsPerHour)
        /\ ~OlderThan(runs[r].prs[k], ReadAt(r, k, 3), Days(30)))
         => /\ ~OlderThan(runs[r].prs[k], ReadAt(r, k, 3), Days(28) - SecondsPerHour)
                 => InWarn(r, k)
            /\ ~OlderThanMonth(runs[r].prs[k], ReadAt(r, k, 3)) => InWarn(r, k)
            /\ OlderThanMonth(runs[r].prs[k], ReadAt(r, k, 3)) => InClose(r, k)

\* an in-progress pull request is closed 29 days after its last update
C3_Witness ==
  \E r \in ProcessedRuns : \E k \in Positions(r) :
    /\ runs[r].prs[k].labels = {inProgressLabel}
    /\ InClose(r, k)
    /\ runs[r].prs[k].updated_at = Ago(ReadAt(r, k, 3), Days(29))

IsReadyAndInProgress(r, k) ==
  /\ IsReady(r, k)
  /\ \/ inProgressLabel \in runs[r].prs[k].labels
     \/ helpWantedLabel \in runs[r].prs[k].labels

\* C4 as stated: a pull request that is both ready and in progress (or help
\* wanted) is never in the close or warn list; it is in the email list when
\* more than 7 times 24 hours have elapsed since its last update and in no
\* list when less.
C4_ReadyBranchOnly ==
  \A r \in ProcessedRuns : \A k \in Positions(r) :
    IsReadyAndInProgress(r, k)
      => /\ ~InClose(r, k)
         /\ ~InWarn(r, k)
         /\ OlderThan(runs[r].prs[k], ReadAt(r, k, 1), Days(7)) => InEmail(r, k)
         /\ YoungerThan(runs[r].prs[k], ReadAt(r, k, 1), Days(7)) => InNoBucket(r, k)

\* C4 amended: a pull request that is both ready and in progress (or help
\* wanted) is never in the close or warn list however old it is; it is in
\* the email list when last updated before the same local time 7 calendar
\* days before the clock reading (7 times 24 hours, an hour less or more
\* across a shift of daylight saving) and in no list otherwise.
C4_ReadyBranchOnlyByCalendar ==
  \A r \in ProcessedRuns : \A k \in Positions(r) :
    IsReadyAndInProgress(r, k)
      => /\ ~InClose(r, k)
         /\ ~InWarn(r, k)
         /\ OlderThanDays(runs[r].prs[k], ReadAt(r, k, 1), 7) => InEmail(r, k)
         /\ ~OlderThanDays(runs[r].prs[k], ReadAt(r, k, 1), 7) => InNoBucket(r, k)
         /\ OlderThan(runs[r].prs[k], ReadAt(r, k, 1), Days(7) + SecondsPerHour)
              => InEmail(r, k)

\* a pull request both ready and in progress, updated two months ago, is
\* mailed and not closed
C4_Witness ==
  \E r \in ProcessedRuns : \E k \in Positions(r) :
    /\ runs[r].prs[k].labels = {readyLabel, inProgressLabel}
    /\ InEmail(r, k)
    /\ runs[r].prs[k].updated_at = Ago(ReadAt(r, k, 1), Days(61))
    /\ runs[r].close = <<>>

\* the number of positions of list s that hold x
Count(s, x) == Cardinality({ i \in DOMAIN s : s[i] = x })

\* C5: the close, warn and email lists of a run are pairwise disjoint, and
\* every pull request occurs in them at most as often as in the aggregated
\* list, for every label set and update time.
C5_AtMostOneBucket ==
  \A r \in ProcessedRuns :
    /\ Elems(runs[r].close) \cap Elems(runs[r].warn) = {}
    /\ Elems(runs[r].close) \cap Elems(runs[r].email) = {}
    /\ Elems(runs[r].warn) \cap Elems(runs[r].email) = {}
    /\ \A pr \in Elems(runs[r].close) \cup Elems(runs[r].warn) \cup Elems(runs[r].email) :
         Count(runs[r].close, pr) + Count(runs[r].warn, pr) + Count(runs[r].email, pr)
           <= Count(runs[r].prs, pr)

C5_Witness ==
  \E r \in ProcessedRuns : \E k \in Positions(r) :
    /\ runs[r].prs[k].labels = {readyLabel, inProgressLabel, helpWantedLabel, Unrecognized}
    /\ OlderThanMonth(runs[r].prs[k], ReadAt(r, k, 3))
    /\ InEmail(r, k)
    /\ runs[r].close = <<>> /\ runs[r].warn = <<>>

CallsOf(calls, r) == { c \in DOMAIN calls : calls[c].run = r }

\* C6: a pull request with none of the ready, in-progress and help-wanted
\* labels is in no list however old it is, and a run of such pull requests
\* calls neither handler.
C6_UnrecognizedIsNone ==
  \A r \in ProcessedRuns :
    /\ \A k \in Positions(r) :
         runs[r].prs[k].labels \cap {readyLabel, inProgressLabel, helpWantedLabel} = {}
           => InNoBucket(r, k)
    /\ (\A k \in Positions(r) :
          runs[r].prs[k].labels \cap {readyLabel, inProgressLabel, helpWantedLabel} = {})
         => CallsOf(mails, r) = {} /\ CallsOf(closeCalls, r) = {}

C6_Witness ==
  \E r \in ProcessedRuns : \E k \in Positions(r) :
    /\ runs[r].prs[k].labels = {Unrecognized}
    /\ runs[r].prs[k].updated_at = Ago(ReadAt(r, k, 3), Days(61))
    /\ InNoBucket(r, k)
    /\ mails = <<>> /\ closeCalls = <<>>

----------------------------------------------------------------------------
(* Properties of the run coordinator.                                       *)

\* C7: in every run sendMail is called at most once and closePrExpired at
\* most once, whatever the number of pull requests; a run with nothing in
\* the email list sends nothing and one with nothing in the close list
\* closes nothing, so pull requests in the warn list cause no call.
C7_AtMostOneCallPerBucket ==
  \A r \in DOMAIN runs :
    /\ Cardinality(CallsOf(mails, r)) <= 1
    /\ Cardinality(CallsOf(closeCalls, r)) <= 1
    /\ runs[r].email = <<>> => CallsOf(mails, r) = {}
    /\ runs[r].close = <<>> => CallsOf(closeCalls, r) = {}

C7_Witness ==
  \E r \in ProcessedRuns :
    /\ Len(runs[r].email) >= 2
    /\ Len(runs[r].close) >= 1
    /\ Cardinality(CallsOf(mails, r)) = 1
    /\ Cardinality(CallsOf(closeCalls, r)) = 1

\* the mail m lists the title and URL of every pull request of list prs
ListsAll(m, prs) ==
  \A pr \in Elems(prs) : <<pr.title, pr.html_url>> \in Elems(m.body)

\* C8 as stated: every run that classifies some pull request notify sends
\* exactly one message, which lists every pull request of the email list,
\* whatever the configured recipient.
C8_OneMessagePerNotifyingRun ==
  \A r \in ProcessedRuns :
    runs[r].email # <<>> =>
      /\ Cardinality(CallsOf(mails, r)) = 1
      /\ \A m \in CallsOf(mails, r) : ListsAll(mails[m], runs[r].email)

\* run r reaches its processed outcome in this step
BecomesProcessed(r) ==
  /\ r \in DOMAIN runs'
  /\ runs'[r].outcome = "processed"
  /\ r \in DOMAIN runs => runs[r].outcome # "processed"

\* C8 amended: a run that classifies some pull request notify sends exactly
\* one message, to the module-level recipient and listing every pull request
\* of the email list, when that recipient is present at dispatch; when it is
\* absent the run sends no message.
C8_OneMessageWhenRecipientPresent ==
  [][\A r \in DOMAIN runs' :
       (BecomesProcessed(r) /\ runs'[r].email # <<>>) =>
         IF prReviewerEmail # undefined
         THEN /\ Cardinality(CallsOf(mails', r)) = 1
              /\ \A m \in CallsOf(mails', r) :
                   /\ mails'[m].to = prReviewerEmail
                   /\ ListsAll(mails'[m], runs'[r].email)
         ELSE CallsOf(mails', r) = {}]_vars

C8_Witness ==
  \E r \in ProcessedRuns : \E m \in CallsOf(mails, r) :
    /\ Len(runs[r].email) >= 2
    /\ Cardinality(CallsOf(mails, r)) = 1
    /\ Len(mails[m].body) = Len(runs[r].email)
    /\ ListsAll(mails[m], runs[r].email)

\* C9: a run one of whose fetches failed is reported failed: it aggregates
\* and classifies nothing and calls neither handler, whatever the other
\* fetches delivered and in whatever order they completed.
C9_FailedFetchAbortsRun ==
  \A r \in DOMAIN runs :
    (\E i \in DOMAIN runs[r].status : runs[r].status[i] = "error") =>
      /\ runs[r].outcome = "failed"
      /\ runs[r].prs = <<>>
      /\ runs[r].close = <<>> /\ runs[r].warn = <<>> /\ runs[r].email = <<>>
      /\ CallsOf(mails, r) = {}
      /\ CallsOf(closeCalls, r) = {}

C9_Witness ==
  \E r \in DOMAIN runs : \E i, k \in DOMAIN runs[r].status :
    /\ runs[r].status[i] = "ok"
    /\ Len(runs[r].prLists[i]) = 2
    /\ runs[r].status[k] = "error"
    /\ runs[r].outcome = "failed"

\* the number of positions of the lists prLists that hold x
RECURSIVE CountAll(_, _)
CountAll(prLists, x) ==
  IF prLists = <<>> THEN 0
  ELSE Count(Head(prLists), x) + CountAll(Tail(prLists), x)

\* C10: a run has one fetch issued for every client of its job from its
\* start; while a fetch is outstanding nothing is aggregated or dispatched;
\* a processed run has every fetch completed successfully and its
\* aggregated list holds each pull request exactly as often as the fetched
\* lists do.
C10_JoinThenAggregate ==
  \A r \in DOMAIN runs :
    /\ Len(runs[r].status) = Cardinality(jobs[runs[r].job].repoClients \cap Elems(repos))
    /\ runs[r].outcome = "waiting" =>
         /\ runs[r].prs = <<>>
         /\ CallsOf(mails, r) = {} /\ CallsOf(closeCalls, r) = {}
    /\ runs[r].outcome = "processed" =>
         /\ \A i \in DOMAIN runs[r].status : runs[r].status[i] = "ok"
         /\ \A i \in DOMAIN runs[r].status :
              \A pr \in Elems(runs[r].prLists[i]) :
                Count(runs[r].prs, pr) = CountAll(runs[r].prLists, pr)
         /\ \A pr \in Elems(runs[r].prs) :
              Count(runs[r].prs, pr) = CountAll(runs[r].prLists, pr)

C10_Witness ==
  \E r \in ProcessedRuns :
    /\ Len(runs[r].status) = 2
    /\ runs[r].prLists[1] # runs[r].prLists[2]
    /\ Len(runs[r].prs) = Len(runs[r].prLists[1]) + Len(runs[r].prLists[2])
    /\ Len(runs[r].prs) >= 3

----------------------------------------------------------------------------
(* Properties of scheduling, failures and messages.                         *)

WaitingRuns == { r \in DOMAIN runs : runs[r].outcome = "waiting" }

\* C11: a run of a job never starts while an earlier run of the same job is
\* still waiting for its fetches.
C11_RunsNeverOverlap ==
  [][Len(runs') > Len(runs) =>
       \A r \in WaitingRuns : runs[r].job # runs'[Len(runs')].job]_vars

C11_Witness ==
  \E r1 \in WaitingRuns : \E r2 \in WaitingRuns :
    /\ r1 < r2
    /\ runs[r1].job = runs[r2].job
    /\ \E i \in DOMAIN runs[r1].status : runs[r1].status[i] = "pending"
    /\ runs[r2].fetchers # <<>>

\* C12: when the sendMail callback reports an error the mail is marked as
\* logged and nothing else changes: no mail is sent again, the runs and the
\* close calls are as before, and a further run can still start.
C12_MailFailureOnlyLogged ==
  [][\A m \in DOMAIN mails :
       (mails[m].state = "sent" /\ mails'[m].state = "error logged") =>
         /\ Len(mails') = Len(mails)
         /\ Cardinality(CallsOf(mails', mails[m].run)) = 1
         /\ \A k \in DOMAIN mails : k # m => mails'[k] = mails[k]
         /\ runs' = runs
         /\ closeCalls' = closeCalls
         /\ prReviewerEmail' = prReviewerEmail
         /\ (Len(runs) < MaxRuns => ENABLED Tick)']_vars

C12_Witness ==
  \E m \in DOMAIN mails : \E r \in ProcessedRuns :
    /\ mails[m].state = "error logged"
    /\ Cardinality(CallsOf(mails, mails[m].run)) = 1
    /\ Cardinality(CallsOf(closeCalls, mails[m].run)) = 1
    /\ r > mails[m].run
    /\ \E k \in CallsOf(mails, r) : mails[k].state = "delivered"

RunQueues(r) == [close |-> runs[r].close, warn |-> runs[r].warn, email |-> runs[r].email]

\* C13: when a run is processed its aggregated list holds exactly the pull
\* requests its own fetches delivered; its three lists and its handler calls
\* are determined by those lists and the clock readings of the run,
\* whatever earlier runs fetched and however they ended; it has the same
\* lists as every earlier processed run with the same fetched lists and
\* clock readings.
C13_RunsIndependent ==
  [][\A r \in DOMAIN runs' :
       BecomesProcessed(r) =>
         /\ \A pr \in Elems(runs'[r].prs) \cup Elems(ConcatAll(runs'[r].fetched)) :
              Count(runs'[r].prs, pr) = CountAll(runs'[r].fetched, pr)
         /\ RunQueues(r)' =
              QueueActions(ConcatAll(runs'[r].fetched), runs'[r].reads, EmptyQueues)
         /\ \A m \in CallsOf(mails', r) : mails'[m].body = BodyLines(runs'[r].email)
         /\ \A c \in CallsOf(closeCalls', r) : closeCalls'[c].prs = runs'[r].close
         /\ \A r2 \in ProcessedRuns :
              (runs[r2].fetched = runs'[r].fetched /\ runs[r2].reads = runs'[r].reads) =>
                /\ runs[r2].prs = runs'[r].prs
                /\ RunQueues(r2) = RunQueues(r)']_vars

C13_Witness ==
  \E r1 \in DOMAIN runs : \E r2 \in ProcessedRuns :
    /\ r1 < r2
    /\ runs[r1].outcome = "failed"
    /\ ConcatAll(runs[r1].fetched) # <<>>
    /\ Elems(ConcatAll(runs[r1].fetched)) \cap Elems(runs[r2].prs) = {}
    /\ runs[r2].email # <<>>
    /\ CallsOf(mails, r2) # {}

Pending(r) == { i \in DOMAIN runs[r].status : runs[r].status[i] = "pending" }

Errors(r) == { i \in DOMAIN runs[r].status : runs[r].status[i] = "error" }

\* C14 as stated: a run has an outcome only when none of its fetches is
\* outstanding.
C14_OutcomeOnlyAfterAllSettled ==
  \A r \in DOMAIN runs : runs[r].outcome # "waiting" => Pending(r) = {}

\* C14 amended: a run is processed only when every fetch has succeeded, it
\* has failed exactly when some fetch has failed, outstanding fetches or
\* not, and it is waiting exactly when some fetch is outstanding and none
\* has failed.
C14_OutcomeAfterAllSucceedOrFirstFailure ==
  \A r \in DOMAIN runs :
    /\ runs[r].outcome = "processed" <=> (Pending(r) = {} /\ Errors(r) = {})
    /\ runs[r].outcome = "failed" <=> Errors(r) # {}
    /\ runs[r].outcome = "waiting" <=> (Pending(r) # {} /\ Errors(r) = {})

C14_Witness ==
  \E r \in DOMAIN runs :
    /\ runs[r].outcome = "failed"
    /\ Pending(r) # {}
    /\ Cardinality(Errors(r)) = 1

ClientsOf(r) == jobs[runs[r].job].repoClients

\* C15: the fetches of a run are those of the monitored repositories that
\* have a client, one each; a run fails only when a fetch failed, so a
\* repository without a client fails nothing; a run of a job without any
\* client is processed from the start, with an empty list and no call of a
\* handler.
C15_FetchOnlyWithClient ==
  \A r \in DOMAIN runs :
    /\ Elems(runs[r].fetchers) = ClientsOf(r) \cap Elems(repos)
    /\ Len(runs[r].fetchers) = Cardinality(ClientsOf(r) \cap Elems(repos))
    /\ runs[r].outcome = "failed" => Errors(r) # {}
    /\ ClientsOf(r) \cap Elems(repos) = {} =>
         /\ runs[r].outcome = "processed"
         /\ runs[r].prs = <<>>
         /\ CallsOf(mails, r) = {} /\ CallsOf(closeCalls, r) = {}

C15_Witness ==
  /\ Len(runs) = MaxRuns
  /\ \A r \in DOMAIN runs :
       /\ ClientsOf(r) = {}
       /\ runs[r].outcome = "processed"
       /\ runs[r].prs = <<>>
  /\ mails = <<>> /\ closeCalls = <<>>

Line(pr) == <<pr.title, pr.html_url>>

\* C16: in every mail the count of the subject, the number of body lines
\* and the length of the email list of its run are equal; line k carries
\* the title and the URL of the k-th pull request of the email list, and no
\* line is that of a pull request of the run outside the email list.
C16_SubjectCountsBodyLines ==
  \A m \in DOMAIN mails :
    /\ mails[m].subject = Len(mails[m].body)
    /\ Len(mails[m].body) = Len(runs[mails[m].run].email)
    /\ \A k \in DOMAIN mails[m].body :
         mails[m].body[k] = Line(runs[mails[m].run].email[k])
    /\ \A pr \in Elems(runs[mails[m].run].prs) \ Elems(runs[mails[m].run].email) :
         Line(pr) \notin Elems(mails[m].body)

C16_Witness ==
  \E m \in DOMAIN mails :
    /\ mails[m].subject = 2
    /\ mails[m].body[1] # mails[m].body[2]
    /\ runs[mails[m].run].close # <<>>
    /\ Len(runs[mails[m].run].prs) > 2

InOrderOf(sub, s) == sub = SelectSeq(s, LAMBDA x : x \in Elems(sub))

\* C17: the fetches of a run are in the order of repos; the aggregated list
\* of a processed run is the concatenation of what its fetches delivered,
\* in the order of the fetches and not of their call backs; the three lists
\* keep the order of the aggregated list and the mail lists the email list
\* in its order.
C17_CompletionOrderIrrelevant ==
  \A r \in ProcessedRuns :
    /\ InOrderOf(runs[r].fetchers, repos)
    /\ runs[r].prs = ConcatAll(runs[r].fetched)
    /\ InOrderOf(runs[r].close, runs[r].prs)
    /\ InOrderOf(runs[r].warn, runs[r].prs)
    /\ InOrderOf(runs[r].email, runs[r].prs)
    /\ \A m \in CallsOf(mails, r) :
         mails[m].body = [k \in DOMAIN runs[r].email |-> Line(runs[r].email[k])]

\* a run whose second fetch called back before its first, beside a
\* processed run of two different lists that has sent its mail
C17_Witness ==
  \E r1 \in WaitingRuns : \E r2 \in ProcessedRuns :
    /\ runs[r1].status = <<"pending", "ok">>
    /\ runs[r1].fetched[2] # <<>>
    /\ Len(runs[r2].fetchers) = 2
    /\ runs[r2].fetched[1] # runs[r2].fetched[2]
    /\ runs[r2].fetched[1] # <<>> /\ runs[r2].fetched[2] # <<>>
    /\ Len(runs[r2].email) = 2
    /\ CallsOf(mails, r2) # {}

LatestRecipient == IF jobs = <<>> THEN undefined ELSE jobs[Len(jobs)].pr_review

\* C18: after every construction the recipient is the pr_review of the job
\* constructed last; every mail a step sends, for a run of whichever job, is
\* addressed to it; while it is absent no step sends a mail.
C18_RecipientOfLatestJob ==
  [][/\ prReviewerEmail' = LatestRecipient'
     /\ \A m \in DOMAIN mails' \ DOMAIN mails :
          /\ mails'[m].to = LatestRecipient
          /\ mails'[m].to # undefined
     /\ LatestRecipient = undefined => mails' = mails]_vars

\* a mail of a run of the first job addressed to the recipient of the
\* second job and not to its own
C18_Witness ==
  \E m \in DOMAIN mails :
    /\ runs[mails[m].run].job = 1
    /\ Len(jobs) = 2
    /\ jobs[1].pr_review = "committers"
    /\ jobs[2].pr_review = "reviewers"
    /\ mails[m].to = "reviewers"

Result(run) ==
  [outcome |-> run.outcome, prs |-> run.prs, close |-> run.close,
   warn |-> run.warn, email |-> run.email]

\* C19: when every issued fetch eventually calls back, every started run
\* eventually has an outcome; the outcome, the lists and the handler calls
\* of a run that has one never change afterwards; a failed run has no
\* handler call and a processed run at most one of each.
C19_EveryRunEndsOnce ==
  /\ \A r \in 1 .. MaxRuns :
       (r \in DOMAIN runs) ~> (r \in DOMAIN runs /\ runs[r].outcome # "waiting")
  /\ [][\A r \in DOMAIN runs :
          runs[r].outcome # "waiting" =>
            /\ Result(runs'[r]) = Result(runs[r])
            /\ CallsOf(mails', r) = CallsOf(mails, r)
            /\ CallsOf(closeCalls', r) = CallsOf(closeCalls, r)
            /\ Cardinality(CallsOf(mails, r)) <= 1
            /\ Cardinality(CallsOf(closeCalls, r)) <= 1
            /\ runs[r].outcome = "failed" =>
                 CallsOf(mails, r) = {} /\ CallsOf(closeCalls, r) = {}]_vars

\* a failed run whose fetches have all called back, one of them after the
\* failure, beside a processed run that has made both handler calls
C19_Witness ==
  \E r1 \in DOMAIN runs : \E r2 \in ProcessedRuns :
    /\ runs[r1].outcome = "failed"
    /\ Pending(r1) = {}
    /\ Len(runs[r1].fetchers) = 2
    /\ Cardinality(CallsOf(mails, r2)) = 1
    /\ Cardinality(CallsOf(closeCalls, r2)) = 1

====
